---- MODULE Spec2Model ----
(***************************************************************************)
(* Codenix IDE: the App component's state (file store, active file, rename *)
(* mode, chat transcript, loading flag, preview document) and its event    *)
(* handlers, together with the webhook client sendMessageToModel.          *)
(*                                                                         *)
(* Strings.  A JavaScript string is a sequence of atoms.  An atom stands   *)
(* for a fixed, non-empty run of characters ("</head>", ".css", " ").  The *)
(* atoms are chosen so that every pattern the code searches for            *)
(* ('content', '.html', '.css', '.js', '</head>', '</body>', whitespace,   *)
(* the replacement patterns $$ $& $` $') is a whole atom, so the string    *)
(* operations of the code are computed on sequences exactly as JavaScript  *)
(* computes them on characters.  The empty string is <<>>.                 *)
(*                                                                         *)
(* Nullable values (string | null) are None = <<>> or Some(x) = <<x>>.     *)
(***************************************************************************)
EXTENDS Integers, Sequences, FiniteSets, TLC

\* Bounds of the model.
MaxFiles == 2      \* handleAddNewFile is explored while the store has fewer files
MaxSends == 1      \* handleSendMessage is explored while fewer POSTs were issued
MaxChatSends == 2  \* the same, where only the chat handlers are explored
MaxMoves == 3      \* mousemove events explored while a divider is dragged

None == <<>>
Some(x) == <<x>>

\* ------------------------------------------------------------------------
\* String helpers (JavaScript String.prototype)
\* ------------------------------------------------------------------------
IsSpace(a) == a \in {" ", "\n"}

RECURSIVE TrimStart(_)
TrimStart(s) ==
  IF s # <<>> /\ IsSpace(Head(s)) THEN TrimStart(Tail(s)) ELSE s

RECURSIVE TrimEnd(_)
TrimEnd(s) ==
  IF s # <<>> /\ IsSpace(s[Len(s)]) THEN TrimEnd(SubSeq(s, 1, Len(s) - 1)) ELSE s

trim(s) == TrimEnd(TrimStart(s))

endsWith(s, suffix) ==
  /\ Len(s) >= Len(suffix)
  /\ SubSeq(s, Len(s) - Len(suffix) + 1, Len(s)) = suffix

MatchesAt(s, pat, i) == SubSeq(s, i, i + Len(pat) - 1) = pat

includes(s, pat) == \E i \in 1..(Len(s) - Len(pat) + 1) : MatchesAt(s, pat, i)

indexOf(s, pat) ==
  CHOOSE i \in 1..(Len(s) - Len(pat) + 1) :
    /\ MatchesAt(s, pat, i)
    /\ \A j \in 1..(i - 1) : ~MatchesAt(s, pat, j)

\* The replacement string of String.prototype.replace is not inserted
\* verbatim: $$ inserts "$", $& the matched text, $` the text before the
\* match and $' the text after it.
RECURSIVE ExpandReplacement(_, _, _, _)
ExpandReplacement(repl, matched, before, after) ==
  IF repl = <<>> THEN <<>>
  ELSE LET a == Head(repl)
           rest == ExpandReplacement(Tail(repl), matched, before, after)
       IN  (CASE a = "$$" -> <<"$">>
              [] a = "$&" -> matched
              [] a = "$`" -> before
              [] a = "$'" -> after
              [] OTHER -> <<a>>) \o rest

\* s.replace(pat, repl) with a string pattern: the first occurrence only.
replace(s, pat, repl) ==
  IF ~includes(s, pat) THEN s
  ELSE LET i == indexOf(s, pat)
           before == SubSeq(s, 1, i - 1)
           after == SubSeq(s, i + Len(pat), Len(s))
       IN  before \o ExpandReplacement(repl, pat, before, after) \o after

RECURSIVE join(_, _)
join(parts, sep) ==
  IF parts = <<>> THEN <<>>
  ELSE IF Len(parts) = 1 THEN parts[1]
  ELSE parts[1] \o sep \o join(Tail(parts), sep)

\* ------------------------------------------------------------------------
\* Records
\* ------------------------------------------------------------------------
FileNode(name, content) == [name |-> name, content |-> content, type |-> "file"]

\* isError is optional in the source; an absent flag is FALSE here.
ChatMessage(sender, content, isError) ==
  [sender |-> sender, content |-> content, isError |-> isError]

Names(fs) == {fs[i].name : i \in DOMAIN fs}

\* ------------------------------------------------------------------------
\* Inputs
\* ------------------------------------------------------------------------
CONTENT == <<"content">>
HTML == <<".html">>
CSS == <<".css">>
JS == <<".js">>

\* What the user may type into window.prompt.
PromptNames == { <<>>, CONTENT, <<"a", ".html">>, <<"m", ".js">> }

\* What window.prompt returns: null on Cancel, else the typed text.
PromptResults == {None} \cup {Some(n) : n \in PromptNames}

\* What the user may leave in the rename box.
RenameTexts == { <<" ">>, <<" ", "m", ".js", " ">>, CONTENT, <<"a", ".html">> }

\* What the user may leave in the editor's textarea.
EditorTexts == { <<>>, <<"$&">> }

\* What the user may leave in the chat input.
TypedMessages == { <<" ">>, <<"hi">> }

GREETING ==
  <<"Hello! I'm Nix 1.5. Describe the website you want to build, or ask me anything.">>

UNEXPECTED == <<"Received an empty or unexpected response from the model.">>

NO_HTML == <<"<h1>No HTML file found to preview.</h1>">>

\* ------------------------------------------------------------------------
\* The webhook's replies, as fetch() and response.json() deliver them
\* ------------------------------------------------------------------------
Error(msg) == [isError |-> TRUE, message |-> msg]
NoThrow == [isError |-> FALSE, message |-> <<>>]
NoData == [truthy |-> FALSE, answerIsString |-> FALSE, answer |-> <<>>]

\* fetch() rejected (network error)
Rejected(thrown) ==
  [net |-> "rejected", status |-> 0, parses |-> FALSE, rawData |-> NoData, thrown |-> thrown]
\* fetch() resolved with a status; the body does not parse as JSON
Unparsable(status, thrown) ==
  [net |-> "resolved", status |-> status, parses |-> FALSE, rawData |-> NoData, thrown |-> thrown]
\* fetch() resolved with a status and a JSON body
Json(status, rawData) ==
  [net |-> "resolved", status |-> status, parses |-> TRUE, rawData |-> rawData, thrown |-> NoThrow]

JsonNull == NoData
JsonNoAnswer == [truthy |-> TRUE, answerIsString |-> FALSE, answer |-> <<>>]
JsonAnswer(a) == [truthy |-> TRUE, answerIsString |-> TRUE, answer |-> a]

Replies ==
  { Rejected(Error(<<"Failed to fetch">>)),
    Json(500, JsonNoAnswer),
    Unparsable(200, Error(<<"Unexpected end of JSON input">>)),
    Json(200, JsonNull),
    Json(200, JsonNoAnswer),
    Json(200, JsonAnswer(<<" ", "</head>", "</body>", "\n">>)) }

\* ------------------------------------------------------------------------
\* services/codenixService.ts
\* ------------------------------------------------------------------------
systemPrompt(prompt) ==
  <<"You are Nix 1.5, an expert AI web developer. Your single purpose is to generate code based on the user's request.\nUser's request: \"">>
  \o prompt
  \o <<"\"\nRespond ONLY with the raw code for the user's request. Do NOT add any conversational text, explanations, or markdown formatting.">>

\* The request fetch() issues: method, Content-Type header and JSON body.
PostRequest(prompt) ==
  [method |-> "POST", contentType |-> "application/json",
   body |-> [question |-> systemPrompt(prompt)]]

ResponseOk(status) == status \in 200..299

ServiceSuccess(msg) == [success |-> TRUE, message |-> msg, error |-> <<>>]
ServiceFailure(err) == [success |-> FALSE, message |-> <<>>, error |-> err]

\* The catch block: the thrown value's message, or a fixed text.
Caught(thrown) ==
  ServiceFailure(IF thrown.isError THEN thrown.message
                 ELSE <<"An unknown error occurred.">>)

\* sendMessageToModel without the response.ok check.
sendMessageToModel_NoStatusCheck(reply) ==
  IF reply.net = "rejected" THEN Caught(reply.thrown)
  ELSE IF ~reply.parses THEN Caught(reply.thrown)
  ELSE IF reply.rawData.truthy /\ reply.rawData.answerIsString
    THEN ServiceSuccess(trim(reply.rawData.answer))
  ELSE ServiceSuccess(UNEXPECTED)

\* What sendMessageToModel resolves to once the webhook has replied.
sendMessageToModel(reply) ==
  IF reply.net = "rejected" THEN Caught(reply.thrown)
  ELSE IF ~ResponseOk(reply.status)
    THEN Caught(Error(<<"Webhook failed with status: ", ToString(reply.status)>>))
  ELSE IF ~reply.parses THEN Caught(reply.thrown)
  ELSE IF reply.rawData.truthy /\ reply.rawData.answerIsString
    THEN ServiceSuccess(trim(reply.rawData.answer))
  ELSE ServiceSuccess(UNEXPECTED)

\* ------------------------------------------------------------------------
\* The preview composer (useMemo over files)
\* ------------------------------------------------------------------------
HtmlFile(fs) ==
  LET byName == SelectSeq(fs, LAMBDA f : f.name = CONTENT)
      byExt == SelectSeq(fs, LAMBDA f : endsWith(f.name, HTML))
  IN  IF byName # <<>> THEN Some(byName[1])
      ELSE IF byExt # <<>> THEN Some(byExt[1])
      ELSE None

Styles(fs) ==
  LET cssFiles == SelectSeq(fs, LAMBDA f : endsWith(f.name, CSS))
  IN  join([i \in DOMAIN cssFiles |->
              <<"<style>">> \o cssFiles[i].content \o <<"</style>">>], <<"\n">>)

Scripts(fs) ==
  LET jsFiles == SelectSeq(fs, LAMBDA f : endsWith(f.name, JS))
  IN  join([i \in DOMAIN jsFiles |->
              <<"<script type=\"module\">">> \o jsFiles[i].content \o <<"</script>">>],
           <<"\n">>)

ComposePreview(fs) ==
  IF HtmlFile(fs) = None THEN NO_HTML
  ELSE LET html == HtmlFile(fs)[1].content
           withStyles ==
             IF includes(html, <<"</head>">>)
             THEN replace(html, <<"</head>">>, Styles(fs) \o <<"\n", "</head>">>)
             ELSE html \o Styles(fs)
       IN  IF includes(withStyles, <<"</body>">>)
           THEN replace(withStyles, <<"</body>">>, Scripts(fs) \o <<"\n", "</body>">>)
           ELSE withStyles \o Scripts(fs)

\* ------------------------------------------------------------------------
\* State of App
\* ------------------------------------------------------------------------
VARIABLES
  message,          \* text of the chat input
  files,            \* the file store: a sequence of FileNode
  activeFile,       \* None or Some(name)
  isLoading,
  renamingFile,     \* None or Some(name): the file shown as a rename box
  chatHistory,      \* the chat transcript: a sequence of ChatMessage
  activeTab,        \* "chat" or "preview"
  consoleHeight,
  isConsoleVisible,
  previewContent,   \* the memoised preview document
  posts,            \* every request fetch() has issued, in order
  inflight,         \* indices of posts whose reply has not arrived
  alertShown,       \* the handler whose alert() the latest event raised, or "none"
  explorerWidth,
  rightPanelWidth,
  dragging,         \* None, or Some of the divider being dragged and its startX
  dragStartWidth,   \* the dragged panel's width when the drag started
  pointerDx,        \* None, or Some(dx) of the latest mousemove of the drag
  moveCount         \* mousemove events handled so far

vars ==
  <<message, files, activeFile, isLoading, renamingFile, chatHistory, activeTab,
    consoleHeight, isConsoleVisible, previewContent, posts, inflight, alertShown,
    explorerWidth, rightPanelWidth, dragging, dragStartWidth, pointerDx, moveCount>>

resize ==
  <<explorerWidth, rightPanelWidth, dragging, dragStartWidth, pointerDx, moveCount>>
app ==
  <<message, files, activeFile, isLoading, renamingFile, chatHistory, activeTab,
    consoleHeight, isConsoleVisible, previewContent, posts, inflight, alertShown>>

\* window.innerWidth when App is mounted.
WindowWidths == {1000}

layout == <<activeTab, consoleHeight, isConsoleVisible>>
network == <<posts, inflight>>
chat == <<message, isLoading, chatHistory>>

Init ==
  /\ message = <<>>
  /\ files = <<>>
  /\ activeFile = None
  /\ isLoading = FALSE
  /\ renamingFile = None
  /\ chatHistory = <<ChatMessage("ai", GREETING, FALSE)>>
  /\ activeTab = "chat"
  /\ consoleHeight = 0
  /\ isConsoleVisible = FALSE
  /\ previewContent = ComposePreview(<<>>)
  /\ posts = <<>>
  /\ inflight = {}
  /\ alertShown = "none"
  /\ explorerWidth = 256
  /\ rightPanelWidth \in {(w * 33) \div 100 : w \in WindowWidths}
  /\ dragging = None
  /\ dragStartWidth = 0
  /\ pointerDx = None
  /\ moveCount = 0

\* JavaScript truthiness of a string | null.
Truthy(opt) == opt # None /\ opt[1] # <<>>

\* The chat input's onChange.
SetMessage(m) ==
  /\ message' = m
  /\ alertShown' = "none"
  /\ UNCHANGED <<files, activeFile, isLoading, renamingFile, chatHistory, layout,
                 previewContent, network>>

\* A file's row is a button unless the file is being renamed.
ShownAsButton(name) == name \in Names(files) /\ renamingFile # Some(name)

handleFileSelect(fileName) ==
  /\ ShownAsButton(fileName)
  /\ activeFile' = Some(fileName)
  /\ alertShown' = "none"
  /\ UNCHANGED <<files, renamingFile, chat, layout, previewContent, network>>

\* Double click on a file's button.
onRenameStart(fileName) ==
  /\ ShownAsButton(fileName)
  /\ renamingFile' = Some(fileName)
  /\ alertShown' = "none"
  /\ UNCHANGED <<files, activeFile, chat, layout, previewContent, network>>

\* handleContentChange writing the text into every file.
handleContentChange_AllFiles(newContent) ==
  /\ alertShown' = "none"
  /\ IF ~Truthy(activeFile)
     THEN UNCHANGED <<files, previewContent>>
     ELSE /\ files' = [i \in DOMAIN files |-> [files[i] EXCEPT !.content = newContent]]
          /\ previewContent' = ComposePreview(files')
  /\ UNCHANGED <<activeFile, renamingFile, chat, layout, network>>

handleContentChange(newContent) ==
  /\ alertShown' = "none"
  /\ IF ~Truthy(activeFile)
     THEN UNCHANGED <<files, previewContent>>
     ELSE /\ files' = [i \in DOMAIN files |->
                         IF files[i].name = activeFile[1]
                         THEN [files[i] EXCEPT !.content = newContent]
                         ELSE files[i]]
          /\ previewContent' = ComposePreview(files')
  /\ UNCHANGED <<activeFile, renamingFile, chat, layout, network>>

\* The body of handleSendMessage up to the await: a blank message returns at
\* once; otherwise the user entry is appended, the input cleared, the loading
\* flag set and sendMessageToModel issues its one fetch().
handleSendMessage ==
  /\ alertShown' = "none"
  /\ IF trim(message) = <<>>
     THEN UNCHANGED <<chat, network>>
     ELSE /\ chatHistory' = Append(chatHistory, ChatMessage("user", message, FALSE))
          /\ message' = <<>>
          /\ isLoading' = TRUE
          /\ posts' = Append(posts, PostRequest(message))
          /\ inflight' = inflight \cup {Len(posts) + 1}
  /\ UNCHANGED <<files, activeFile, renamingFile, layout, previewContent>>

\* Enter in the chat input: e.key === 'Enter' && !isLoading && handleSendMessage()
PressEnter_NoLoadingGuard == handleSendMessage

PressEnter ==
  /\ ~isLoading
  /\ handleSendMessage

\* The send button: disabled={isLoading || !message.trim()}
ClickSend ==
  /\ ~(isLoading \/ trim(message) = <<>>)
  /\ handleSendMessage

\* ReportError showing the console without appending the error entry.
ReportError_Silent(response) ==
  /\ isConsoleVisible' = TRUE
  /\ consoleHeight' = 192
  /\ activeTab' = "chat"
  /\ UNCHANGED <<chatHistory, files, activeFile, previewContent>>

\* handleSendMessage after the await, response.success === false.
ReportError(response) ==
  /\ chatHistory' = Append(chatHistory, ChatMessage("ai", response.error, TRUE))
  /\ isConsoleVisible' = TRUE
  /\ consoleHeight' = 192
  /\ activeTab' = "chat"
  /\ UNCHANGED <<files, activeFile, previewContent>>

\* StoreAnswer appending the content file without filtering the old one out.
StoreAnswer_NoFilter(response) ==
  /\ chatHistory' = Append(chatHistory, ChatMessage("ai", response.message, FALSE))
  /\ files' = Append(files, FileNode(CONTENT, response.message))
  /\ activeFile' = Some(CONTENT)
  /\ activeTab' = "preview"
  /\ previewContent' = ComposePreview(files')
  /\ UNCHANGED <<isConsoleVisible, consoleHeight>>

\* StoreAnswer replacing the whole store by the content file.
StoreAnswer_ReplaceStore(response) ==
  /\ chatHistory' = Append(chatHistory, ChatMessage("ai", response.message, FALSE))
  /\ files' = <<FileNode(CONTENT, response.message)>>
  /\ activeFile' = Some(CONTENT)
  /\ activeTab' = "preview"
  /\ previewContent' = ComposePreview(files')
  /\ UNCHANGED <<isConsoleVisible, consoleHeight>>

\* handleSendMessage after the await, response.success === true.
StoreAnswer(response) ==
  /\ chatHistory' = Append(chatHistory, ChatMessage("ai", response.message, FALSE))
  /\ files' = SelectSeq(files, LAMBDA f : f.name # CONTENT)
                \o <<FileNode(CONTENT, response.message)>>
  /\ activeFile' = Some(CONTENT)
  /\ activeTab' = "preview"
  /\ previewContent' = ComposePreview(files')
  /\ UNCHANGED <<isConsoleVisible, consoleHeight>>

\* WebhookResponse issuing the request once more when the call failed.
WebhookResponse_Retry(i, reply) ==
  /\ i \in inflight
  /\ alertShown' = "none"
  /\ IF sendMessageToModel(reply).success = FALSE
     THEN /\ posts' = Append(posts, posts[i])
          /\ inflight' = (inflight \ {i}) \cup {Len(posts) + 1}
          /\ UNCHANGED <<isLoading, chatHistory, files, activeFile, previewContent, layout>>
     ELSE /\ inflight' = inflight \ {i}
          /\ isLoading' = FALSE
          /\ StoreAnswer(sendMessageToModel(reply))
          /\ UNCHANGED posts
  /\ UNCHANGED <<message, renamingFile>>

\* The rest of handleSendMessage, run when the awaited call for request i
\* resolves after the webhook's reply.
WebhookResponse(i, reply) ==
  /\ i \in inflight
  /\ inflight' = inflight \ {i}
  /\ isLoading' = FALSE
  /\ alertShown' = "none"
  /\ IF sendMessageToModel(reply).success = FALSE
     THEN ReportError(sendMessageToModel(reply))
     ELSE StoreAnswer(sendMessageToModel(reply))
  /\ UNCHANGED <<message, renamingFile, posts>>

\* handleAddNewFile without the files.some(...) check.
handleAddNewFile_NoCheck(promptResult) ==
  IF ~Truthy(promptResult)
  THEN /\ alertShown' = "none"
       /\ UNCHANGED <<files, activeFile, renamingFile, chat, layout, previewContent, network>>
  ELSE /\ Len(files) < MaxFiles
       /\ files' = Append(files, FileNode(promptResult[1], <<>>))
       /\ activeFile' = Some(promptResult[1])
       /\ previewContent' = ComposePreview(files')
       /\ alertShown' = "none"
       /\ UNCHANGED <<renamingFile, chat, layout, network>>

\* handleAddNewFile putting the new file first: [newFile, ...prevFiles].
handleAddNewFile_Prepend(promptResult) ==
  IF ~Truthy(promptResult)
  THEN /\ alertShown' = "none"
       /\ UNCHANGED <<files, activeFile, renamingFile, chat, layout, previewContent, network>>
  ELSE IF promptResult[1] \in Names(files)
  THEN /\ alertShown' = "handleAddNewFile"
       /\ UNCHANGED <<files, activeFile, renamingFile, chat, layout, previewContent, network>>
  ELSE /\ Len(files) < MaxFiles
       /\ files' = <<FileNode(promptResult[1], <<>>)>> \o files
       /\ activeFile' = Some(promptResult[1])
       /\ previewContent' = ComposePreview(files')
       /\ alertShown' = "none"
       /\ UNCHANGED <<renamingFile, chat, layout, network>>

\* promptResult is what window.prompt returned.
handleAddNewFile(promptResult) ==
  IF ~Truthy(promptResult)
  THEN /\ alertShown' = "none"
       /\ UNCHANGED <<files, activeFile, renamingFile, chat, layout, previewContent, network>>
  ELSE LET fileName == promptResult[1]
       IN  IF fileName \in Names(files)
           THEN /\ alertShown' = "handleAddNewFile"
                /\ UNCHANGED <<files, activeFile, renamingFile, chat, layout,
                               previewContent, network>>
           ELSE /\ Len(files) < MaxFiles
                /\ files' = Append(files, FileNode(fileName, <<>>))
                /\ activeFile' = Some(fileName)
                /\ previewContent' = ComposePreview(files')
                /\ alertShown' = "none"
                /\ UNCHANGED <<renamingFile, chat, layout, network>>

\* handleRenameFile looking the untrimmed newName up in the store.
handleRenameFile_UntrimmedCheck(oldName, newName) ==
  /\ renamingFile = Some(oldName)
  /\ oldName \in Names(files)
  /\ IF trim(newName) = <<>> \/ trim(newName) = oldName
     THEN /\ renamingFile' = None
          /\ alertShown' = "none"
          /\ UNCHANGED <<files, activeFile, previewContent>>
     ELSE IF newName \in Names(files)
     THEN /\ alertShown' = "handleRenameFile"
          /\ UNCHANGED <<files, activeFile, renamingFile, previewContent>>
     ELSE /\ files' = [i \in DOMAIN files |->
                         IF files[i].name = oldName
                         THEN [files[i] EXCEPT !.name = trim(newName)]
                         ELSE files[i]]
          /\ activeFile' = IF activeFile = Some(oldName)
                           THEN Some(trim(newName)) ELSE activeFile
          /\ renamingFile' = None
          /\ previewContent' = ComposePreview(files')
          /\ alertShown' = "none"
  /\ UNCHANGED <<chat, layout, network>>

\* handleRenameFile leaving activeFile as it is when the active file is
\* renamed.
handleRenameFile_KeepActive(oldName, newName) ==
  /\ renamingFile = Some(oldName)
  /\ oldName \in Names(files)
  /\ LET trimmedNewName == trim(newName)
     IN  IF trimmedNewName = <<>> \/ trimmedNewName = oldName
         THEN /\ renamingFile' = None
              /\ alertShown' = "none"
              /\ UNCHANGED <<files, activeFile, previewContent>>
         ELSE IF trimmedNewName \in Names(files)
         THEN /\ alertShown' = "handleRenameFile"
              /\ UNCHANGED <<files, activeFile, renamingFile, previewContent>>
         ELSE /\ files' = [i \in DOMAIN files |->
                             IF files[i].name = oldName
                             THEN [files[i] EXCEPT !.name = trimmedNewName]
                             ELSE files[i]]
              /\ UNCHANGED activeFile
              /\ renamingFile' = None
              /\ previewContent' = ComposePreview(files')
              /\ alertShown' = "none"
  /\ UNCHANGED <<chat, layout, network>>

\* onRenameConfirm from the rename box of oldName (blur, or Escape with
\* newName = oldName).
handleRenameFile(oldName, newName) ==
  /\ renamingFile = Some(oldName)
  /\ oldName \in Names(files)
  /\ LET trimmedNewName == trim(newName)
     IN  IF trimmedNewName = <<>> \/ trimmedNewName = oldName
         THEN /\ renamingFile' = None
              /\ alertShown' = "none"
              /\ UNCHANGED <<files, activeFile, previewContent>>
         ELSE IF trimmedNewName \in Names(files)
         THEN /\ alertShown' = "handleRenameFile"
              /\ UNCHANGED <<files, activeFile, renamingFile, previewContent>>
         ELSE /\ files' = [i \in DOMAIN files |->
                             IF files[i].name = oldName
                             THEN [files[i] EXCEPT !.name = trimmedNewName]
                             ELSE files[i]]
              /\ activeFile' = IF activeFile = Some(oldName)
                               THEN Some(trimmedNewName) ELSE activeFile
              /\ renamingFile' = None
              /\ previewContent' = ComposePreview(files')
              /\ alertShown' = "none"
  /\ UNCHANGED <<chat, layout, network>>

\* ------------------------------------------------------------------------
\* Resizer: the two horizontal dividers (explorer | editor | right panel)
\* ------------------------------------------------------------------------

Dividers == {"explorer", "rightPanel"}

\* clientX of the mousedown and of the mousemove events.
StartXs == {300}
ClientXs == {200, 290, 310, 320}

Max(a, b) == IF a >= b THEN a ELSE b

\* The onDrag prop of each divider, with React's functional updater applied
\* to the current width.
onDrag(divider, dx) ==
  IF divider = "explorer"
  THEN /\ explorerWidth' = Max(200, explorerWidth + dx)
       /\ UNCHANGED rightPanelWidth
  ELSE /\ rightPanelWidth' = Max(200, rightPanelWidth - dx)
       /\ UNCHANGED explorerWidth

\* handleMouseDown: remembers startX and registers the window listeners.
handleMouseDown(divider, clientX) ==
  /\ dragging = None
  /\ dragging' = Some([divider |-> divider, startX |-> clientX])
  /\ dragStartWidth' = IF divider = "explorer" THEN explorerWidth ELSE rightPanelWidth
  /\ pointerDx' = None
  /\ UNCHANGED <<explorerWidth, rightPanelWidth, moveCount, app>>

\* handleMouseMove: dx is measured from startX and handed to onDrag.
handleMouseMove(clientX) ==
  /\ dragging # None
  /\ moveCount < MaxMoves
  /\ LET dx == clientX - dragging[1].startX
     IN  /\ onDrag(dragging[1].divider, dx)
         /\ pointerDx' = Some(dx)
  /\ moveCount' = moveCount + 1
  /\ UNCHANGED <<dragging, dragStartWidth, app>>

\* handleMouseUp: removes the window listeners.
handleMouseUp ==
  /\ dragging # None
  /\ dragging' = None
  /\ pointerDx' = None
  /\ UNCHANGED <<explorerWidth, rightPanelWidth, dragStartWidth, moveCount, app>>

ResizeNext ==
  \/ \E d \in Dividers, x \in StartXs : handleMouseDown(d, x)
  \/ \E x \in ClientXs : handleMouseMove(x)
  \/ handleMouseUp

ResizeSpec == Init /\ [][ResizeNext]_vars

Next ==
  \/ (\E m \in TypedMessages : SetMessage(m)) /\ UNCHANGED resize
  \/ (\E n \in Names(files) : handleFileSelect(n)) /\ UNCHANGED resize
  \/ (\E n \in Names(files) : onRenameStart(n)) /\ UNCHANGED resize
  \/ (\E x \in EditorTexts : handleContentChange(x)) /\ UNCHANGED resize
  \/ PressEnter /\ Len(posts') <= MaxSends /\ UNCHANGED resize
  \/ ClickSend /\ Len(posts') <= MaxSends /\ UNCHANGED resize
  \/ (\E i \in inflight, reply \in Replies : WebhookResponse(i, reply)) /\ UNCHANGED resize
  \/ (\E p \in PromptResults : handleAddNewFile(p)) /\ UNCHANGED resize
  \/ (\E o \in Names(files) : \E n \in RenameTexts \cup {o} : handleRenameFile(o, n))
       /\ UNCHANGED resize

Spec == Init /\ [][Next]_vars

\* The event loop runs the continuation of a settled fetch().
ResponseArrives ==
  (\E i \in inflight : \E reply \in Replies : WebhookResponse(i, reply)) /\ UNCHANGED resize

\* The second conjunct lets no run end while some event is still possible.
FairSpec ==
  /\ Spec
  /\ WF_vars(ResponseArrives)
  /\ WF_vars(Next)

\* The chat panel alone: typing, both ways of sending, and the webhook's
\* response.
ChatNext ==
  \/ (\E m \in TypedMessages : SetMessage(m)) /\ UNCHANGED resize
  \/ PressEnter /\ Len(posts') <= MaxChatSends /\ UNCHANGED resize
  \/ ClickSend /\ Len(posts') <= MaxChatSends /\ UNCHANGED resize
  \/ ResponseArrives

ChatSpec == Init /\ [][ChatNext]_vars

FairChatSpec ==
  /\ ChatSpec
  /\ WF_vars(ResponseArrives)

\* ========================================================================
\* Claims
\* ========================================================================

\* C1: in every reachable state no two files of the store have the same name.
C1_UniqueNames ==
  \A i, j \in DOMAIN files : i # j => files[i].name # files[j].name

\* A store of three files, one of them the webhook's 'content', after the
\* webhook's response.
C1_Witness ==
  /\ Len(files) = 3
  /\ CONTENT \in Names(files)
  /\ Len(chatHistory) = 3

\* C2: confirming a rename of oldName to a text whose trimmed form differs
\* from oldName and names another file of the store changes neither the file
\* list nor the active file, and oldName stays in rename mode.
C2_DuplicateRenameRejected ==
  [][\A o \in Names(files) : \A n \in RenameTexts \cup {o} :
       (/\ handleRenameFile(o, n)
        /\ trim(n) # o
        /\ trim(n) \in Names(files))
       => (/\ files' = files
           /\ activeFile' = activeFile
           /\ renamingFile' = Some(o))]_vars

\* A rename was just rejected while the file in rename mode is the active one.
C2_Witness ==
  /\ alertShown = "handleRenameFile"
  /\ renamingFile # None
  /\ renamingFile = activeFile
  /\ Len(files) >= 2

\* C3: adding an entered (non-empty) name that a file of the store already
\* has changes neither the file list nor the active file; adding an entered
\* name not in the store appends one empty file of that name and makes it
\* the active file.  A cancelled or empty prompt enters no name and changes
\* nothing.
C3_AddFile ==
  [][\A p \in PromptResults :
       handleAddNewFile(p)
       => IF ~Truthy(p) \/ p[1] \in Names(files)
          THEN files' = files /\ activeFile' = activeFile
          ELSE /\ files' = Append(files, FileNode(p[1], <<>>))
               /\ activeFile' = Some(p[1])]_vars

\* An add was just rejected in a store whose last file was added before it.
C3_Witness ==
  /\ alertShown = "handleAddNewFile"
  /\ Len(files) >= 2
  /\ files[Len(files)].content = <<>>
  /\ activeFile = Some(files[Len(files)].name)

\* a occurs in b in order, possibly with other atoms in between.
RECURSIVE IsSubsequence(_, _)
IsSubsequence(a, b) ==
  IF a = <<>> THEN TRUE
  ELSE IF b = <<>> THEN FALSE
  ELSE IF Head(a) = Head(b) THEN IsSubsequence(Tail(a), Tail(b))
  ELSE IsSubsequence(a, Tail(b))

\* C4: in every reachable state with a designated HTML file, the preview
\* document holds that file's current content (in order, the styles and
\* scripts inserted into it) and, as it stands in the store, the current
\* content of every file whose name ends in '.css' or '.js'.
C4_PreviewHoldsLatestContents ==
  HtmlFile(files) # None =>
    /\ IsSubsequence(HtmlFile(files)[1].content, previewContent)
    /\ \A k \in DOMAIN files :
         (endsWith(files[k].name, CSS) \/ endsWith(files[k].name, JS))
         => includes(previewContent, files[k].content)

\* The reply is a JSON body with a string field 'answer'.
HasStringAnswer(reply) ==
  /\ reply.net = "resolved"
  /\ reply.parses
  /\ reply.rawData.truthy
  /\ reply.rawData.answerIsString

\* The call failed: network error, non-OK status or unparsable body.
CallFailed(reply) ==
  \/ reply.net = "rejected"
  \/ ~ResponseOk(reply.status)
  \/ ~reply.parses

\* The error string of a failed call.
ErrorString(reply) ==
  IF reply.net = "rejected" THEN reply.thrown.message
  ELSE IF ~ResponseOk(reply.status)
    THEN <<"Webhook failed with status: ", ToString(reply.status)>>
  ELSE reply.thrown.message

ContentFiles(fs) == SelectSeq(fs, LAMBDA f : f.name = CONTENT)
OtherFiles(fs) == SelectSeq(fs, LAMBDA f : f.name # CONTENT)

\* C5: when the call succeeds with response text T (the message the call
\* resolves to), one AI entry with T is appended to the transcript, and
\* afterwards the store holds exactly one file named 'content', with content
\* T, which is the active file; the files of other names are unchanged.
C5_SuccessStoresResponse ==
  [][\A i \in inflight : \A reply \in Replies :
       (WebhookResponse(i, reply) /\ sendMessageToModel(reply).success)
       => LET T == sendMessageToModel(reply).message
          IN  /\ chatHistory' = Append(chatHistory, ChatMessage("ai", T, FALSE))
              /\ ContentFiles(files') = <<FileNode(CONTENT, T)>>
              /\ OtherFiles(files') = OtherFiles(files)
              /\ activeFile' = Some(CONTENT)]_vars

\* The webhook's answer replaced a 'content' file while another file, edited
\* by the user, stayed in the store.
C5_Witness ==
  /\ Len(chatHistory) = 3
  /\ ~chatHistory[3].isError
  /\ chatHistory[3].content = <<"</head>", "</body>">>
  /\ ContentFiles(files) = <<FileNode(CONTENT, <<"</head>", "</body>">>)>>
  /\ \E k \in DOMAIN files : files[k].name # CONTENT /\ files[k].content # <<>>
  /\ files[1].name # CONTENT
  /\ Len(files) = 3

\* C6: when the call fails, exactly one AI entry flagged as an error and
\* carrying the error string is appended to the transcript, and the file
\* store and the active file are unchanged.
C6_FailureReportsOneError ==
  [][\A i \in inflight : \A reply \in Replies :
       (WebhookResponse(i, reply) /\ CallFailed(reply))
       => /\ chatHistory' = Append(chatHistory, ChatMessage("ai", ErrorString(reply), TRUE))
          /\ files' = files
          /\ activeFile' = activeFile]_vars

\* A failed call was reported while the store holds files and one is active.
C6_Witness ==
  /\ Len(chatHistory) = 3
  /\ chatHistory[3].isError
  /\ chatHistory[3].content = <<"Webhook failed with status: ", "500">>
  /\ Len(files) = 2
  /\ activeFile # None

UserEntries == {k \in DOMAIN chatHistory : chatHistory[k].sender = "user"}

\* C7: the number of requests ever issued equals the number of user entries
\* of the transcript, every request is a POST, and no request is issued for
\* a message whose request has been replied to.
C7_OnePostPerSend ==
  /\ Len(posts) = Cardinality(UserEntries)
  /\ \A k \in DOMAIN posts : posts[k].method = "POST"
  /\ inflight \subseteq DOMAIN posts
  /\ Cardinality(inflight) + Cardinality({k \in DOMAIN chatHistory :
        k > 1 /\ chatHistory[k].sender = "ai"}) = Len(posts)

\* A request failed and nothing is in flight after it.
C7_Witness ==
  /\ Len(posts) = 1
  /\ inflight = {}
  /\ chatHistory[Len(chatHistory)].isError

\* C8: when the reply is not a JSON body with a string field 'answer', an
\* error entry is appended to the transcript and the file store is unchanged.
C8_UnexpectedBodyIsFailure ==
  [][\A i \in inflight : \A reply \in Replies :
       (WebhookResponse(i, reply) /\ ~HasStringAnswer(reply))
       => /\ Len(chatHistory') = Len(chatHistory) + 1
          /\ chatHistory'[Len(chatHistory')].sender = "ai"
          /\ chatHistory'[Len(chatHistory')].isError
          /\ files' = files]_vars

\* File k of the store is still in the store after the step: under its name
\* (unchanged, edited or replaced), or renamed in place.
FileSurvives(k) ==
  \/ files[k].name \in Names(files')
  \/ /\ Len(files') = Len(files)
     /\ files'[k].content = files[k].content
     /\ files'[k].name \notin Names(files)

C10_EditChangesOnlyActiveFile ==
  [][\A x \in EditorTexts :
       handleContentChange(x)
       => /\ activeFile' = activeFile
          /\ renamingFile' = renamingFile
          /\ chatHistory' = chatHistory
          /\ IF activeFile = None
             THEN files' = files
             ELSE /\ activeFile[1] \in Names(files)
                  /\ Len(files') = Len(files)
                  /\ \A k \in DOMAIN files :
                       /\ files'[k].name = files[k].name
                       /\ files'[k].content =
                            IF files[k].name = activeFile[1] THEN x
                            ELSE files[k].content]_vars

\* The active file holds the edited text and the other files do not.
C10_Witness ==
  /\ Len(files) = 3
  /\ activeFile = Some(files[2].name)
  /\ files[2].content = <<"$&">>
  /\ files[1].content = <<>>
  /\ files[3].content = <<"</head>", "</body>">>

\* C11: during one drag, after any number of mousemove events, the dragged
\* panel's width is max(200, width at drag start + displacement) for the
\* explorer and max(200, width at drag start - displacement) for the right
\* panel, the displacement being the pointer's distance from the drag start.
C11_WidthFollowsPointer ==
  (dragging # None /\ pointerDx # None) =>
    IF dragging[1].divider = "explorer"
    THEN explorerWidth = Max(200, dragStartWidth + pointerDx[1])
    ELSE rightPanelWidth = Max(200, dragStartWidth - pointerDx[1])

\* C12: at most one webhook request is in flight at any time and isLoading is
\* set exactly while one is outstanding; while isLoading is set no step issues
\* a POST or appends a user entry; and Enter or the send button on a blank
\* (empty or whitespace-only) message issues no POST and appends no entry.
C12_AtMostOneInFlight ==
  /\ [](Cardinality(inflight) <= 1 /\ (isLoading <=> inflight # {}))
  /\ [][/\ isLoading => (posts' = posts /\ UserEntries' = UserEntries)
        /\ ((PressEnter \/ ClickSend) /\ trim(message) = <<>>) =>
             UNCHANGED <<chatHistory, posts, inflight, isLoading>>]_vars

\* A second request is outstanding alone, with the next message already typed.
C12_Witness ==
  /\ Len(posts) = 2
  /\ inflight = {2}
  /\ isLoading
  /\ trim(message) # <<>>

\* C13: in every reachable state activeFile is null or the name of a file of
\* the store, whatever the order of webhook responses, additions, renames and
\* edits.
C13_ActiveFileInStore ==
  activeFile = None \/ activeFile[1] \in Names(files)

\* The webhook's answer was stored and selected while a rename box was open,
\* after the active file had been renamed.
C13_Witness ==
  /\ Len(posts) = 1
  /\ inflight = {}
  /\ activeFile = Some(CONTENT)
  /\ renamingFile # None
  /\ <<"m", ".js">> \in Names(files)
  /\ <<"a", ".html">> \in Names(files)

LastSender == chatHistory[Len(chatHistory)].sender

\* C14: the transcript starts with the AI greeting and its senders alternate;
\* every step keeps the entries it had and appends at most one; a step that
\* appends an AI entry clears isLoading; and, the webhook call completing,
\* the n-th entry being a user entry at the end of the transcript leads to
\* the transcript ending with an AI entry right after it, isLoading cleared.
C14_TranscriptAlternates ==
  /\ [](/\ chatHistory[1] = ChatMessage("ai", GREETING, FALSE)
        /\ \A k \in DOMAIN chatHistory :
             chatHistory[k].sender = IF k % 2 = 1 THEN "ai" ELSE "user")
  /\ [][/\ Len(chatHistory') \in {Len(chatHistory), Len(chatHistory) + 1}
        /\ SubSeq(chatHistory', 1, Len(chatHistory)) = chatHistory
        /\ (Len(chatHistory') > Len(chatHistory) /\ LastSender' = "ai") => ~isLoading']_vars
  /\ \A n \in 1..(2 * MaxChatSends) :
       (Len(chatHistory) = n /\ LastSender = "user")
         ~> (Len(chatHistory) = n + 1 /\ LastSender = "ai" /\ ~isLoading)

\* Two round trips are over, the first answered and the second failed.
C14_Witness ==
  /\ Len(chatHistory) = 5
  /\ ~isLoading
  /\ chatHistory[3].isError = FALSE
  /\ chatHistory[5].isError = TRUE

====
